---- MODULE Spec2Model ----
(***************************************************************************)
(* Model of btc-price-predictor-vs-marco-conditions.py: the Streamlit      *)
(* script main(), which is re-executed from top to bottom on every user    *)
(* interaction.  One session is modelled: the widget state kept by the     *)
(* framework between runs, the locals of the current run of main(), and    *)
(* what the run displayed and which collaborators it called.               *)
(*                                                                         *)
(* Numbers shown on sliders are kept as integers scaled by 200, so that a  *)
(* median of an even number of integer observations (a half) and a slider  *)
(* position min + k*(max-min)/100 are both exact.                          *)
(***************************************************************************)
EXTENDS Integers, Sequences, FiniteSets, TLC

\* ---------------------------------------------------------------- bounds
MaxRuns == 4
MaxRows == 4

\* ------------------------------------------------------------- constants
\* step=(max_val - min_val) / 100: a slider has positions 0..SliderSteps.
SliderSteps == 100
\* Fixed-point scale of displayed numbers (2 for the median, 100 for steps).
Scale == 2 * SliderSteps

\* The candidate list of main(), in its declared order.
macro_features ==
  << "gold_price_usd", "SP500", "fed_funds_rate", "US_inflation",
     "US_M2_money_supply_in_billions" >>

\* Columns a dataset can have besides the candidates.
OtherColumns == {"date", "btc_price"}

SeqRange(s) == {s[i] : i \in 1..Len(s)}

AllColumns == SeqRange(macro_features) \cup OtherColumns

\* A missing cell (NaN); observed values are positive.
NaN == -1

\* ----------------------------------------------------- sequence helpers
RECURSIVE FilterSeq(_, _)
\* [x for x in s if x in keep], order of s kept.
FilterSeq(s, keep) ==
  IF s = << >> THEN << >>
  ELSE IF Head(s) \in keep THEN << Head(s) >> \o FilterSeq(Tail(s), keep)
       ELSE FilterSeq(Tail(s), keep)

IsInjective(s) == \A i, j \in 1..Len(s) : s[i] = s[j] => i = j

\* s is a subsequence of t (order preserved).
RECURSIVE IsSubSeq(_, _)
IsSubSeq(s, t) ==
  IF s = << >> THEN TRUE
  ELSE IF t = << >> THEN FALSE
  ELSE IF Head(s) = Head(t) THEN IsSubSeq(Tail(s), Tail(t))
       ELSE IsSubSeq(s, Tail(t))

\* ------------------------------------------------------ Feature Selector
\* A mutation of the filter that iterates the dataset's columns instead of
\* the candidate list (loses the declared order, admits other columns).
RECURSIVE SetToSeq(_)
SetToSeq(S) ==
  IF S = {} THEN << >>
  ELSE LET x == CHOOSE y \in S : TRUE IN << x >> \o SetToSeq(S \ {x})

AvailableFeaturesByColumns(columns) == SetToSeq(columns)

\* available_features = [feat for feat in macro_features if feat in columns]
AvailableFeatures(columns) == FilterSeq(macro_features, columns)

\* --------------------------------------------------------------- dataset
\* A dataframe: a set of column names and the ids of its rows, or None.
\* The cell of row r in column c is Cell(r, c), fixed for the session
\* (the historical dataset is static).
NoneDF == [isNone |-> TRUE, cols |-> {}, rows |-> << >>]

DataFrame(columns, rowIds) == [isNone |-> FALSE, cols |-> columns, rows |-> rowIds]

ColumnWeight(c) ==
  CASE c = "gold_price_usd" -> 1
    [] c = "SP500" -> 2
    [] c = "fed_funds_rate" -> 3
    [] c = "US_inflation" -> 4
    [] OTHER -> 8

\* Missing observations: the Fed funds rate and the S&P 500 have gaps.
Cell(r, c) ==
  IF (c = "fed_funds_rate" /\ r % 4 = 1) \/ (c = "SP500" /\ r % 4 = 2)
  THEN NaN
  ELSE ((r * ColumnWeight(c)) % 5) + 1

\* DataFrame.empty: any axis of length 0.
Empty(df) == df.cols = {} \/ Len(df.rows) = 0

RECURSIVE FilterRows(_, _)
\* The rows of a sequence of row ids with no NaN in the columns `need`.
FilterRows(rows, need) ==
  IF rows = << >> THEN << >>
  ELSE IF \A c \in need : Cell(Head(rows), c) # NaN
       THEN << Head(rows) >> \o FilterRows(Tail(rows), need)
       ELSE FilterRows(Tail(rows), need)

\* The non-missing values of column c, in row order (pandas reductions skip NaN).
RECURSIVE ColumnValues(_, _)
ColumnValues(rows, c) ==
  IF rows = << >> THEN << >>
  ELSE IF Cell(Head(rows), c) # NaN
       THEN << Cell(Head(rows), c) >> \o ColumnValues(Tail(rows), c)
       ELSE ColumnValues(Tail(rows), c)

RECURSIVE Insert(_, _)
Insert(x, sorted) ==
  IF sorted = << >> THEN << x >>
  ELSE IF x <= Head(sorted) THEN << x >> \o sorted
       ELSE << Head(sorted) >> \o Insert(x, Tail(sorted))

RECURSIVE Sort(_)
Sort(s) == IF s = << >> THEN << >> ELSE Insert(Head(s), Sort(Tail(s)))

\* float(clean_df[feature].min()), .max(), .median(), scaled by Scale.
\* Defined where the column has at least one observation.
MinVal(df, feature) == Scale * Sort(ColumnValues(df.rows, feature))[1]

MaxVal(df, feature) ==
  LET v == Sort(ColumnValues(df.rows, feature)) IN Scale * v[Len(v)]

MedianVal(df, feature) ==
  LET v == Sort(ColumnValues(df.rows, feature))
      n == Len(v)
  IN IF n % 2 = 1 THEN Scale * v[(n + 1) \div 2]
     ELSE (Scale \div 2) * (v[n \div 2] + v[n \div 2 + 1])

HasObservation(df, feature) ==
  feature \in df.cols /\ ColumnValues(df.rows, feature) # << >>

\* ------------------------------------------------- external collaborators
\* train_model's cleaning step: rows with a missing value in the target or
\* in any selected feature are dropped.
DropNa(df, features) ==
  DataFrame(df.cols, FilterRows(df.rows, SeqRange(features) \cup {"btc_price"}))

\* A fitted model remembers the feature list it was fitted on and the run
\* of main() that fitted it; coef_ has one entry per training feature.
NoModel == [fitted |-> FALSE, features |-> << >>, fit |-> 0]

Fit(features, run) == [fitted |-> TRUE, features |-> features, fit |-> run]

Coef(m) == [i \in 1..Len(m.features) |-> [of |-> m.features[i], fit |-> m.fit]]

\* ------------------------------------------------------- widget semantics
\* st.sidebar.checkbox(feature, value=True, key=...): the session's value
\* for the key, True for a checkbox the session has no state for.
NoCheckboxState == [f \in SeqRange(macro_features) |-> TRUE]

Checkbox(state, feature) == state[feature]

\* st.slider(..., min_value, max_value, value, step, key=...): the value
\* the user left this widget at; a slider whose bounds or default differ
\* from the stored one is a new widget and returns its default.
NoSlider == [has |-> FALSE, lo |-> 0, hi |-> 0, def |-> 0, val |-> 0]

NoSliderState == [f \in SeqRange(macro_features) |-> NoSlider]

SameSlider(st, lo, hi, def) == st.has /\ st.lo = lo /\ st.hi = hi /\ st.def = def

Slider(st, lo, hi, def) == IF SameSlider(st, lo, hi, def) THEN st.val ELSE def

\* The value of slider position k of a slider from lo to hi.
SliderPosition(lo, hi, k) == lo + k * ((hi - lo) \div SliderSteps)

\* Positions the user drags a slider to.
Ticks == {0, SliderSteps \div 2, SliderSteps}

\* Widget state of widgets a finished run did not render is dropped.
KeptCheckboxes(state, rendered) ==
  [f \in SeqRange(macro_features) |->
     IF << "checkbox", f >> \in rendered THEN state[f] ELSE TRUE]

KeptSliders(state, rendered) ==
  [f \in SeqRange(macro_features) |->
     IF << "slider", f >> \in rendered THEN state[f] ELSE NoSlider]

\* ------------------------------------------------------------------ state
VARIABLES
  source,             \* what load_data() returns in this session
  checked,            \* session: checkbox value per feature key
  sliderState,        \* session: slider widget state per feature key
  clicked,            \* the interaction that started this run was the button
  runs,               \* runs of main() started in this session
  loadCalls,          \* calls of load_data() in this session
  pc,                 \* position of the current run of main(), or "idle"
  btc_macro_df,       \* locals of main()
  available_features,
  selected_features,
  model,
  clean_df,
  feature_values,
  errors,             \* st.error messages of the current run, in order
  shown,              \* elements the current run rendered after load_data()
  columnsListed,      \* the columns written after "Available columns:"
  coef_df,            \* the coefficient table the current run displayed
  trainCalls,         \* feature lists passed to train_model in this run
  predictCalls,       \* (model, feature_values) passed to make_prediction
  loadCallsRun,       \* calls of load_data() in this run
  raised,             \* where this run raised an exception, or "nowhere"
  outcome             \* "none", "running", "returned" or "crashed"

session == << source, checked, sliderState, clicked, runs, loadCalls >>

locals ==
  << btc_macro_df, available_features, selected_features, model, clean_df,
     feature_values >>

display == << errors, shown, columnsListed, coef_df >>

calls == << trainCalls, predictCalls, loadCallsRun >>

vars == << session, pc, locals, display, calls, raised, outcome >>

\* Column sets and row counts of the datasets a session can be given.
ColumnChoices ==
  {S \cup OtherColumns : S \in SUBSET SeqRange(macro_features)} \cup {{}}

RowIds(n) == [i \in 1..n |-> i]

Sources ==
  {NoneDF} \cup {DataFrame(c, RowIds(n)) : c \in ColumnChoices, n \in 0..MaxRows}

NoCoefTable == [Feature |-> << >>, Coefficient |-> << >>]

FreshLocals ==
  /\ btc_macro_df = NoneDF
  /\ available_features = << >>
  /\ selected_features = << >>
  /\ model = NoModel
  /\ clean_df = NoneDF
  /\ feature_values = << >>

FreshOutput ==
  /\ errors = << >>
  /\ shown = {}
  /\ columnsListed = {}
  /\ coef_df = NoCoefTable
  /\ trainCalls = << >>
  /\ predictCalls = << >>
  /\ loadCallsRun = 0
  /\ raised = "nowhere"

Init ==
  /\ source \in Sources
  /\ checked = NoCheckboxState
  /\ sliderState = NoSliderState
  /\ clicked = FALSE
  /\ runs = 0
  /\ loadCalls = 0
  /\ pc = "idle"
  /\ FreshLocals
  /\ FreshOutput
  /\ outcome = "none"

\* ------------------------------------------------------ user interactions
\* Every interaction re-executes main() from its first line with fresh
\* locals and an empty page.
BeginRun(button) ==
  /\ pc = "idle"
  /\ runs < MaxRuns
  /\ runs' = runs + 1
  /\ clicked' = button
  /\ pc' = "load"
  /\ btc_macro_df' = NoneDF
  /\ available_features' = << >>
  /\ selected_features' = << >>
  /\ model' = NoModel
  /\ clean_df' = NoneDF
  /\ feature_values' = << >>
  /\ errors' = << >>
  /\ shown' = {}
  /\ columnsListed' = {}
  /\ coef_df' = NoCoefTable
  /\ trainCalls' = << >>
  /\ predictCalls' = << >>
  /\ loadCallsRun' = 0
  /\ raised' = "nowhere"
  /\ outcome' = "running"
  /\ UNCHANGED << source, loadCalls >>

\* The page is opened: the first run of the session.
OpenPage ==
  /\ runs = 0
  /\ BeginRun(FALSE)
  /\ UNCHANGED << checked, sliderState >>

\* The user asks for a rerun without touching a control.
Rerun ==
  /\ runs > 0
  /\ BeginRun(FALSE)
  /\ UNCHANGED << checked, sliderState >>

ToggleCheckbox(f) ==
  /\ << "checkbox", f >> \in shown
  /\ BeginRun(FALSE)
  /\ checked' = [checked EXCEPT ![f] = ~ @]
  /\ UNCHANGED sliderState

MoveSlider(f, k) ==
  /\ << "slider", f >> \in shown
  /\ sliderState[f].has
  /\ BeginRun(FALSE)
  /\ sliderState' =
       [sliderState EXCEPT
          ![f].val = SliderPosition(sliderState[f].lo, sliderState[f].hi, k)]
  /\ UNCHANGED checked

PressButton ==
  /\ << "button", "Predict BTC Price" >> \in shown
  /\ BeginRun(TRUE)
  /\ UNCHANGED << checked, sliderState >>

\* --------------------------------------------------------- a run of main()
\* main() returns: the run is over and the page waits for an interaction.
Return(sliders, rendered) ==
  /\ pc' = "idle"
  /\ outcome' = "returned"
  /\ checked' = KeptCheckboxes(checked, rendered)
  /\ sliderState' = KeptSliders(sliders, rendered)

\* if btc_macro_df is None or btc_macro_df.empty
DataUnavailableNoneOnly(df) == df.isNone

DataUnavailable(df) == df.isNone \/ Empty(df)

\* A loader step that asks again when the first answer is unusable.
LoadDataRetrying ==
  /\ pc = "load"
  /\ btc_macro_df' = source
  /\ loadCalls' = loadCalls + (IF DataUnavailable(source) THEN 2 ELSE 1)
  /\ loadCallsRun' = loadCallsRun + (IF DataUnavailable(source) THEN 2 ELSE 1)
  /\ IF DataUnavailable(source)
     THEN /\ errors' = Append(errors, "load_failed")
          /\ Return(sliderState, shown)
     ELSE /\ pc' = "select"
          /\ UNCHANGED << errors, checked, sliderState, outcome >>
  /\ UNCHANGED << source, clicked, runs, available_features, selected_features,
                  model, clean_df, feature_values, shown, columnsListed,
                  coef_df, trainCalls, predictCalls, raised >>

\* btc_macro_df = load_data(), and the data-unavailable exit.
LoadData ==
  /\ pc = "load"
  /\ btc_macro_df' = source
  /\ loadCalls' = loadCalls + 1
  /\ loadCallsRun' = loadCallsRun + 1
  /\ IF DataUnavailable(btc_macro_df')
     THEN /\ errors' = Append(errors, "load_failed")
          /\ Return(sliderState, shown)
     ELSE /\ pc' = "select"
          /\ UNCHANGED << errors, checked, sliderState, outcome >>
  /\ UNCHANGED << source, clicked, runs, available_features, selected_features,
                  model, clean_df, feature_values, shown, columnsListed,
                  coef_df, trainCalls, predictCalls, raised >>

\* if not available_features
NoUsableFeatureNever(features) == FALSE

NoUsableFeature(features) == features = << >>

\* The feature filter and the configuration-error exit.
SelectAvailable ==
  /\ pc = "select"
  /\ available_features' = AvailableFeatures(btc_macro_df.cols)
  /\ IF NoUsableFeature(available_features')
     THEN /\ errors' = Append(errors, "no_features")
          /\ shown' = shown \cup {<< "text", "Available columns:" >>}
          /\ columnsListed' = btc_macro_df.cols
          /\ Return(sliderState, shown')
     ELSE /\ pc' = "checkboxes"
          /\ UNCHANGED << errors, shown, columnsListed, checked, sliderState,
                          outcome >>
  /\ UNCHANGED << source, clicked, runs, loadCalls, btc_macro_df,
                  selected_features, model, clean_df, feature_values, coef_df,
                  calls, raised >>

\* selected_features: the available features whose checkbox returns True.
RECURSIVE SelectedFeatures(_, _)
SelectedFeatures(features, state) ==
  IF features = << >> THEN << >>
  ELSE IF Checkbox(state, Head(features))
       THEN << Head(features) >> \o SelectedFeatures(Tail(features), state)
       ELSE SelectedFeatures(Tail(features), state)

\* if not selected_features
NothingSelectedNever(features) == FALSE

NothingSelected(features) == features = << >>

\* One checkbox per available feature and the user-input-error exit.
Checkboxes ==
  /\ pc = "checkboxes"
  /\ shown' = shown \cup {<< "checkbox", available_features[i] >> :
                            i \in 1..Len(available_features)}
  /\ selected_features' = SelectedFeatures(available_features, checked)
  /\ IF NothingSelected(selected_features')
     THEN /\ errors' = Append(errors, "no_selection")
          /\ Return(sliderState, shown')
     ELSE /\ pc' = "train"
          /\ UNCHANGED << errors, checked, sliderState, outcome >>
  /\ UNCHANGED << source, clicked, runs, loadCalls, btc_macro_df,
                  available_features, model, clean_df, feature_values,
                  columnsListed, coef_df, calls, raised >>

\* A run whose exception nothing catches: main() does not return.
Propagate(site, sliders, rendered) ==
  /\ raised' = site
  /\ errors' = errors
  /\ pc' = "crashed"
  /\ outcome' = "crashed"
  /\ checked' = checked
  /\ sliderState' = sliders

\* except Exception as e: st.error(message); st.error(traceback.format_exc())
ExceptHandler(site, sliders, rendered) ==
  /\ raised' = site
  /\ errors' = errors \o << "exception", "traceback" >>
  /\ Return(sliders, rendered)

\* if model is None or clean_df is None or clean_df.empty
TrainingFailedIgnoringEmpty(m, df) == ~ m.fitted \/ df.isNone

TrainingFailed(m, df) == ~ m.fitted \/ df.isNone \/ Empty(df)

\* train_model(btc_macro_df, features) and the training-failure exit.
\* The collaborator may raise, return no model, or return no dataframe.
TrainWith(features) ==
  /\ pc = "train"
  /\ trainCalls' = Append(trainCalls, features)
  /\ \E raises, gotModel, gotClean \in BOOLEAN :
       IF raises
       THEN /\ UNCHANGED << model, clean_df >>
            /\ ExceptHandler("train_model", sliderState, shown)
       ELSE /\ raised' = raised
            /\ model' = IF gotModel THEN Fit(features, runs) ELSE NoModel
            /\ clean_df' = IF gotClean THEN DropNa(btc_macro_df, features)
                           ELSE NoneDF
            /\ IF TrainingFailed(model', clean_df')
               THEN /\ errors' = Append(errors, "train_failed")
                    /\ Return(sliderState, shown)
               ELSE /\ pc' = "sliders"
                    /\ UNCHANGED << errors, checked, sliderState, outcome >>
  /\ UNCHANGED << source, clicked, runs, loadCalls, btc_macro_df,
                  available_features, selected_features, feature_values,
                  shown, columnsListed, coef_df, predictCalls, loadCallsRun >>

TrainAvailable == TrainWith(available_features)

Train == TrainWith(selected_features)

\* The slider loop over `features` with bounds and default taken from df.
\* n sliders are constructed; the construction of slider n+1 raises when
\* its column has no observation (NaN bounds), and may raise otherwise.
SlidersUsing(df, features) ==
  /\ pc = "sliders"
  /\ \E n \in 0..Len(features) :
       /\ \A i \in 1..n : HasObservation(df, features[i])
       /\ LET lo(i) == MinVal(df, features[i])
              hi(i) == MaxVal(df, features[i])
              def(i) == MedianVal(df, features[i])
              val(i) == Slider(sliderState[features[i]], lo(i), hi(i), def(i))
              rendered == shown \cup {<< "slider", features[i] >> : i \in 1..n}
              registered ==
                [f \in SeqRange(macro_features) |->
                   IF \E i \in 1..n : features[i] = f
                   THEN LET i == CHOOSE j \in 1..n : features[j] = f
                        IN [has |-> TRUE, lo |-> lo(i), hi |-> hi(i),
                            def |-> def(i), val |-> val(i)]
                   ELSE sliderState[f]]
          IN /\ feature_values' = [i \in 1..n |-> val(i)]
             /\ shown' = rendered
             /\ IF n < Len(features)
                THEN ExceptHandler("slider", registered, rendered)
                ELSE /\ pc' = "predict"
                     /\ raised' = raised
                     /\ sliderState' = registered
                     /\ UNCHANGED << errors, checked, outcome >>
  /\ UNCHANGED << source, clicked, runs, loadCalls, btc_macro_df,
                  available_features, selected_features, model, clean_df,
                  columnsListed, coef_df, calls >>

SlidersFromRawData == SlidersUsing(btc_macro_df, selected_features)

SlidersOverAvailable == SlidersUsing(clean_df, available_features)

Sliders == SlidersUsing(clean_df, selected_features)

\* if st.button("Predict BTC Price"): make_prediction(model, feature_values)
\* The collaborator may raise, return None, or return a price.
Predict ==
  /\ pc = "predict"
  /\ LET rendered == shown \cup {<< "button", "Predict BTC Price" >>}
     IN IF clicked
        THEN /\ predictCalls' =
                  Append(predictCalls, [model |-> model, values |-> feature_values])
             /\ \E result \in {"raise", "none", "price"} :
                  IF result = "raise"
                  THEN /\ shown' = rendered
                       /\ ExceptHandler("make_prediction", sliderState, rendered)
                  ELSE /\ raised' = raised
                       /\ shown' = IF result = "price"
                                   THEN rendered \cup {<< "success", "prediction" >>}
                                   ELSE rendered
                       /\ pc' = "info"
                       /\ UNCHANGED << errors, checked, sliderState, outcome >>
        ELSE /\ shown' = rendered
             /\ pc' = "info"
             /\ UNCHANGED << predictCalls, errors, checked, sliderState, outcome,
                             raised >>
  /\ UNCHANGED << source, clicked, runs, loadCalls, locals, columnsListed,
                  coef_df, trainCalls, loadCallsRun >>

\* R-squared (line 99), RMSE (line 100) and the coefficient table (lines
\* 104-109).  Formatting r_squared may raise before anything is written;
\* formatting rmse may raise after R-squared was written; building or
\* showing the table may raise after both metrics were written, and
\* pd.DataFrame raises when its two columns differ in length.
ModelInfo ==
  /\ pc = "info"
  /\ \E raisesAt \in {"r_squared", "rmse", "coef_df", "nowhere"} :
       LET first == shown \cup {<< "text", "r_squared" >>}
           metrics == first \cup {<< "text", "rmse" >>}
       IN IF raisesAt = "r_squared"
          THEN /\ UNCHANGED << shown, coef_df >>
               /\ ExceptHandler("model_info", sliderState, shown)
          ELSE IF raisesAt = "rmse"
          THEN /\ shown' = first
               /\ UNCHANGED coef_df
               /\ ExceptHandler("model_info", sliderState, first)
          ELSE IF raisesAt = "coef_df" \/ Len(selected_features) # Len(Coef(model))
          THEN /\ shown' = metrics
               /\ UNCHANGED coef_df
               /\ ExceptHandler("model_info", sliderState, metrics)
          ELSE /\ coef_df' = [Feature |-> selected_features,
                              Coefficient |-> Coef(model)]
               /\ shown' = metrics \cup {<< "dataframe", "coef_df" >>}
               /\ errors' = errors
               /\ raised' = raised
               /\ Return(sliderState, shown')
  /\ UNCHANGED << source, clicked, runs, loadCalls, locals, columnsListed, calls >>

Next ==
  \/ OpenPage
  \/ Rerun
  \/ \E f \in SeqRange(macro_features) : ToggleCheckbox(f)
  \/ \E f \in SeqRange(macro_features), k \in Ticks : MoveSlider(f, k)
  \/ PressButton
  \/ LoadData
  \/ SelectAvailable
  \/ Checkboxes
  \/ Train
  \/ Sliders
  \/ Predict
  \/ ModelInfo

Spec == Init /\ [][Next]_vars

\* The Feature Selector on every set of dataset columns: a first run that
\* has just loaded a dataset with at least one column and one row.
InitSelect ==
  /\ source \in {DataFrame(c, RowIds(1)) : c \in (SUBSET AllColumns) \ {{}}}
  /\ checked = NoCheckboxState
  /\ sliderState = NoSliderState
  /\ clicked = FALSE
  /\ runs = 1
  /\ loadCalls = 1
  /\ pc = "select"
  /\ btc_macro_df = source
  /\ available_features = << >>
  /\ selected_features = << >>
  /\ model = NoModel
  /\ clean_df = NoneDF
  /\ feature_values = << >>
  /\ errors = << >>
  /\ shown = {}
  /\ columnsListed = {}
  /\ coef_df = NoCoefTable
  /\ trainCalls = << >>
  /\ predictCalls = << >>
  /\ loadCallsRun = 1
  /\ raised = "nowhere"
  /\ outcome = "running"

NextSelect == SelectAvailable

SpecSelect == InitSelect /\ [][NextSelect]_vars

\* ----------------------------------------------------------------- claims
Candidates == SeqRange(macro_features)

\* None, or a dataframe without columns or without rows.
NoData(df) == df.isNone \/ df.cols = {} \/ df.rows = << >>

\* The current run has executed the statement at the given position.
PastLoad == outcome # "none" /\ pc # "load"

PastSelect == PastLoad /\ pc # "select" /\ ~ NoData(btc_macro_df)

Rendered(kind) == {e \in shown : e[1] = kind}

NoTrainerCall == trainCalls = << >> /\ predictCalls = << >>

\* C1: once the Feature Selector has run, available_features is the
\* sublist of the five candidates that are dataset columns: a subsequence
\* of the declared list, without duplicates, holding exactly the candidates
\* present; all five, in declared order, when all five are columns.
C1_AvailableIsOrderedSublist ==
  PastSelect =>
    /\ IsSubSeq(available_features, macro_features)
    /\ IsInjective(available_features)
    /\ SeqRange(available_features) = Candidates \cap btc_macro_df.cols
    /\ (Candidates \subseteq btc_macro_df.cols => available_features = macro_features)

C1_Witness ==
  /\ PastSelect
  /\ Candidates \subseteq btc_macro_df.cols
  /\ OtherColumns \subseteq btc_macro_df.cols
  /\ available_features = macro_features

\* C2: a run in which load_data returned None or an empty dataset has
\* ended showing only the data-load error: no widget or text rendered, no
\* call of train_model or make_prediction.
C2_EmptyDataHalts ==
  (PastLoad /\ NoData(btc_macro_df)) =>
    /\ pc = "idle"
    /\ outcome = "returned"
    /\ errors = << "load_failed" >>
    /\ shown = {}
    /\ NoTrainerCall

C2_Witness ==
  /\ outcome = "returned"
  /\ ~ btc_macro_df.isNone
  /\ btc_macro_df.cols # {}
  /\ btc_macro_df.rows = << >>
  /\ errors = << "load_failed" >>

\* C3: a run in which every rendered checkbox is unchecked has ended with
\* the select-at-least-one-feature error and no exception, and every
\* feature list passed to train_model is a non-empty duplicate-free
\* subsequence of available_features.
AllUnchecked ==
  /\ Rendered("checkbox") # {}
  /\ \A i \in 1..Len(available_features) : ~ checked[available_features[i]]

C3_NoSelectionIsUserError ==
  /\ (PastSelect /\ AllUnchecked) =>
       /\ pc = "idle"
       /\ outcome = "returned"
       /\ errors = << "no_selection" >>
       /\ raised = "nowhere"
       /\ NoTrainerCall
  /\ \A i \in 1..Len(trainCalls) :
       /\ trainCalls[i] # << >>
       /\ IsInjective(trainCalls[i])
       /\ IsSubSeq(trainCalls[i], available_features)

C3_Witness ==
  /\ AllUnchecked
  /\ Len(available_features) >= 2
  /\ outcome = "returned"
  /\ errors = << "no_selection" >>

\* C4: a run on a non-empty dataset with none of the five candidate
\* columns has ended with the configuration error and the list of the
\* dataset's columns, with no checkbox and no trainer or predictor call.
C4_NoCandidateColumnHalts ==
  (PastSelect /\ Candidates \cap btc_macro_df.cols = {}) =>
    /\ pc = "idle"
    /\ outcome = "returned"
    /\ errors = << "no_features" >>
    /\ << "text", "Available columns:" >> \in shown
    /\ columnsListed = btc_macro_df.cols
    /\ Rendered("checkbox") = {}
    /\ NoTrainerCall

C4_Witness ==
  /\ outcome = "returned"
  /\ btc_macro_df.cols = OtherColumns
  /\ errors = << "no_features" >>
  /\ columnsListed = OtherColumns

\* C5: a run that raised in train_model, in the slider loop, in
\* make_prediction or while rendering the model information has returned
\* normally with the error message followed by the trace as its last two
\* errors (no run ever crashes), and the interaction after such a run
\* starts a run at load_data with fresh locals and an empty page.
SubSeqFrom(s, n) == [i \in 1..(Len(s) - n) |-> s[n + i]]

ExceptionShown ==
  /\ Len(errors) >= 2
  /\ SubSeqFrom(errors, Len(errors) - 2) = << "exception", "traceback" >>

FreshRun ==
  /\ pc = "load"
  /\ outcome = "running"
  /\ raised = "nowhere"
  /\ FreshLocals
  /\ FreshOutput

C5_Caught ==
  /\ outcome # "crashed"
  /\ raised # "nowhere" => (pc = "idle" /\ outcome = "returned" /\ ExceptionShown)

C5_ExceptionsAreCaught ==
  /\ [] C5_Caught
  /\ [][(raised # "nowhere" /\ pc' # pc) => FreshRun']_vars

C5_Witness ==
  /\ raised = "make_prediction"
  /\ runs >= 2
  /\ outcome = "returned"
  /\ ExceptionShown
  /\ ENABLED Rerun

\* C6: a run in which train_model returned without a model, or with a
\* missing or empty cleaned dataframe, has ended with the training-failure
\* message: no slider, no make_prediction call, no R-squared, RMSE or
\* coefficient output.
TrainerReturned == PastSelect /\ pc # "train" /\ trainCalls # << >> /\ raised # "train_model"

C6_TrainingFailureHalts ==
  (TrainerReturned /\ (~ model.fitted \/ clean_df.isNone \/ clean_df.rows = << >>)) =>
    /\ pc = "idle"
    /\ outcome = "returned"
    /\ errors = << "train_failed" >>
    /\ raised = "nowhere"
    /\ Rendered("slider") = {}
    /\ Rendered("button") = {}
    /\ predictCalls = << >>
    /\ Rendered("text") = {}
    /\ Rendered("dataframe") = {}
    /\ coef_df = NoCoefTable

C6_Witness ==
  /\ outcome = "returned"
  /\ errors = << "train_failed" >>
  /\ btc_macro_df.rows # << >>
  /\ ~ clean_df.isNone
  /\ clean_df.rows = << >>

\* C7: every feature vector passed to make_prediction has one value per
\* selected feature, in the order of the one feature list passed to
\* train_model in this run: value i is the value of the slider of
\* selected_features[i].
C7_VectorFollowsTrainingOrder ==
  \A c \in 1..Len(predictCalls) :
    /\ trainCalls = << selected_features >>
    /\ Len(predictCalls[c].values) = Len(selected_features)
    /\ \A i \in 1..Len(selected_features) :
         /\ << "slider", selected_features[i] >> \in shown
         /\ sliderState[selected_features[i]].has
         /\ predictCalls[c].values[i] = sliderState[selected_features[i]].val

C7_Witness ==
  /\ predictCalls # << >>
  /\ Len(selected_features) >= 2
  /\ Len(selected_features) < Len(available_features)
  /\ \E i, j \in 1..Len(selected_features) :
       predictCalls[1].values[i] # predictCalls[1].values[j]

\* C8: every value a slider returned in this run, and so every value
\* passed to make_prediction, lies between the smallest and the largest
\* observation of its feature in this run's cleaned data, and so does the
\* slider's default, the median.
Observed(df, f) == {Scale * Cell(df.rows[r], f) : r \in 1..Len(df.rows)}

Within(v, S) == (\E x \in S : x <= v) /\ (\E x \in S : v <= x)

C8_ValuesWithinCleanRange ==
  /\ \A i \in 1..Len(feature_values) :
       LET f == selected_features[i]
       IN /\ Within(feature_values[i], Observed(clean_df, f))
          /\ Within(sliderState[f].def, Observed(clean_df, f))
          /\ \A x \in Observed(clean_df, f) : sliderState[f].lo <= x /\ x <= sliderState[f].hi
          /\ sliderState[f].lo <= sliderState[f].def
          /\ sliderState[f].def <= sliderState[f].hi
  /\ \A c \in 1..Len(predictCalls) : predictCalls[c].values = feature_values

C8_Witness ==
  /\ predictCalls # << >>
  /\ clean_df.rows # btc_macro_df.rows
  /\ \E i \in 1..Len(feature_values) :
       LET st == sliderState[selected_features[i]]
       IN st.lo < st.hi /\ feature_values[i] # st.def /\ feature_values[i] = st.hi

\* C9: the model passed to make_prediction, and the model whose
\* coefficients are displayed, was fitted by this run's single train_model
\* call on the currently selected feature list; the coefficient table
\* pairs selected_features[i] with that model's i-th coefficient.
FittedThisRun(m) ==
  /\ m.fitted
  /\ m.fit = runs
  /\ m.features = selected_features
  /\ trainCalls = << selected_features >>

C9_ModelRefitEveryRun ==
  /\ \A c \in 1..Len(predictCalls) : FittedThisRun(predictCalls[c].model)
  /\ coef_df # NoCoefTable =>
       /\ FittedThisRun(model)
       /\ coef_df.Feature = selected_features
       /\ Len(coef_df.Coefficient) = Len(selected_features)
       /\ \A i \in 1..Len(selected_features) :
            coef_df.Coefficient[i] = [of |-> selected_features[i], fit |-> runs]

C9_Witness ==
  /\ runs >= 3
  /\ predictCalls # << >>
  /\ coef_df # NoCoefTable
  /\ Len(selected_features) < Len(available_features)

\* C10 as stated: load_data is invoked once in the whole session.
C10_LoadedOncePerSession == loadCalls <= 1

\* C10 amended: every run of main() invokes load_data exactly once, as its
\* first step, so a session of n runs invokes it n times; within a run an
\* empty or missing result is not asked for again.
C10_LoadedOncePerRun ==
  /\ loadCallsRun = (IF PastLoad THEN 1 ELSE 0)
  /\ loadCalls = (IF pc = "load" THEN runs - 1 ELSE runs)

C10_Witness ==
  /\ runs >= 2
  /\ loadCalls = runs
  /\ NoData(btc_macro_df)
  /\ errors = << "load_failed" >>

====
